---- MODULE Spec2Model ----
(***************************************************************************)
(* State-machine model of src/ct_3d_pipeline.py: main() and                *)
(* process_and_save().                                                     *)
(*                                                                         *)
(* What is abstracted.  The VTK filter chain (marching cubes, triangle     *)
(* filter, clean, decimate) is an opaque pure function of                  *)
(* (volume, threshold, reduction); the model draws its polygon count from  *)
(* PolyCounts the first time a combination is processed and remembers it  *)
(* in image_data, so that a combination processed twice on the same volume *)
(* yields the same mesh.  The floating-point metrics of a row (area,       *)
(* volume, bounding box, centre of mass) are not modelled.  Reduction      *)
(* fractions are held exactly, in thousandths (0.5 is 500, 0.99 is 990).   *)
(* A path is the pair <<directory, file name>>.                            *)
(***************************************************************************)
EXTENDS Integers, Sequences, FiniteSets, TLC

VARIABLES
    pc,                 \* control position of main() / process_and_save()
    output_dir_fs,      \* what OUTPUT_DIR is on disk: "absent", "dir", "readonly_dir", "file"
    input_dir_fs,       \* what INPUT_DIR is on disk: "missing", "empty", "slices", "file"
    created,            \* file-system objects the run has created (directories and files)
    files,              \* paths of the files the run has written
    volume_loaded,      \* volume_data has been read (lines 124-132)
    image_data,         \* the volume, as the meshes it has produced so far: {<<th, red, polys>>}
    results_log,        \* results_log / log_list
    current_iteration,  \* main()'s counter
    it1, it2,           \* how many items the two for-loops have consumed
    batch,              \* which loop the running call was made from (1 or 2)
    threshold, reduction, iteration_info,   \* arguments of the running call
    poly_data,          \* polygon count of decimate.GetOutput()
    num_polygons,       \* local of process_and_save
    file_base_name,     \* local of process_and_save
    console,            \* main()'s outcome messages, in order
    calls               \* history: one record per call of process_and_save

vars == <<pc, output_dir_fs, input_dir_fs, created, files, volume_loaded, image_data,
          results_log, current_iteration, it1, it2, batch, threshold, reduction,
          iteration_info, poly_data, num_polygons, file_base_name, console, calls>>

(* ------------------------------ bounds --------------------------------- *)
\* how many distinct combinations of one volume may give a non-empty mesh
MaxMeshes == 2

\* the polygon counts sampled for a mesh: empty, or a closed box of twelve triangles
PolyCounts == {0, 12}

(* ------------------------- program constants --------------------------- *)
INPUT_DIR == "8bit"
OUTPUT_DIR == "output"
total_iterations == 29
RangeStart == 0
RangeStop == 251
RangeStep == 10
reduction1 == 0
threshold2 == 120

\* range(0, 251, 10) as a sequence
Range(start, stop, step) ==
    [k \in 1..((stop - start + step - 1) \div step) |-> start + (k - 1) * step]

thresholds1_Descending == [k \in 1..26 |-> 250 - (k - 1) * 10]
thresholds1 == Range(RangeStart, RangeStop, RangeStep)

\* [0.0, 0.5, 0.9, 0.99] in thousandths
reductions2 == <<0, 500, 900, 990>>

\* The fractions r/1000, 0 <= r < 1000, whose binary double times 100 rounds to a double
\* just below the exact integer product: 0.29*100 is 28.999999999999996, 0.57*100 is
\* 56.99999999999999 and 0.58*100 is 57.99999999999999.  For every other r the double
\* product and the exact product have the same integer part.
FloatProductBelow == {290, 570, 580}

\* int(reduction*100), reduction in thousandths (0 <= red < 1000): the double product
\* reduction*100, truncated toward zero
IntPercent(red) ==
    IF red \in FloatProductBelow THEN (red * 100) \div 1000 - 1
                                 ELSE (red * 100) \div 1000

\* f"model_th{threshold}_red{int(reduction*100)}"
FileBaseName(th, red) ==
    "model_th" \o ToString(th) \o "_red" \o ToString(IntPercent(red))

\* os.path.join(output_dir, name) and os.path.basename
PathJoin(dir, name) == <<dir, name>>
BaseName(path) == path[2]

CsvPath == PathJoin(OUTPUT_DIR, "comparison_summarynew.csv")

IsEmptyMesh_Never(n) == FALSE
\* poly_data.GetNumberOfPolys() == 0
IsEmptyMesh(n) == n = 0

\* the dict appended at lines 92-106 (metric columns left out)
MakeRow(th, red, n, base) ==
    [Threshold |-> th, Reduction |-> IntPercent(red), PolygonCount |-> n,
     STLFile |-> base \o ".stl", ImageFile |-> base \o ".png"]

\* log_list.append(row)
LogAppend(log, row) == Append(log, row)

\* The directory accepts new files.
Writable == output_dir_fs = "dir"

InCall == {"pipeline", "check", "write_stl", "write_png", "append"}
\* positions of a call at which a VTK stage (filters, analysis, writer, renderer) is about to run
RaisePoint ==
    \/ pc \in {"pipeline", "write_stl", "write_png"}
    \/ pc = "check" /\ ~IsEmptyMesh(poly_data)
Terminal == {"done", "raised"}

\* the polygon counts the volume can give for (th, red)
MeshChoices(th, red) ==
    IF \E m \in image_data : m[1] = th /\ m[2] = red
    THEN {m[3] : m \in {x \in image_data : x[1] = th /\ x[2] = red}}
    ELSE IF Cardinality({m \in image_data : m[3] > 0}) < MaxMeshes
         THEN PolyCounts
         ELSE {0}

NewCall(th, red, info) ==
    [threshold |-> th, reduction |-> red, info |-> info, polys |-> -1,
     analysed |-> FALSE, stl |-> <<>>, png |-> <<>>, logged |-> FALSE]

Return == IF batch = 1 THEN "batch1" ELSE "batch2"

(* ------------------------------ Init ----------------------------------- *)
Init ==
    /\ pc = "main"
    /\ output_dir_fs \in {"absent", "dir", "readonly_dir", "file"}
    /\ input_dir_fs \in {"missing", "empty", "slices", "file"}
    /\ created = {}
    /\ files = {}
    /\ volume_loaded = FALSE
    /\ image_data = {}
    /\ results_log = <<>>
    /\ current_iteration = 0
    /\ it1 = 0
    /\ it2 = 0
    /\ batch = 1
    /\ threshold = 0
    /\ reduction = 0
    /\ iteration_info = <<0, 0>>
    /\ poly_data = 0
    /\ num_polygons = 0
    /\ file_base_name = ""
    /\ console = <<>>
    /\ calls = <<>>

(* ------------------------------ main() --------------------------------- *)
\* os.makedirs(OUTPUT_DIR, exist_ok=True): FileExistsError when it is a file
MakeDirs ==
    /\ pc = "main"
    /\ \/ /\ output_dir_fs = "absent"
          /\ output_dir_fs' = "dir"
          /\ created' = created \cup {PathJoin(".", OUTPUT_DIR)}
          /\ pc' = "listdir"
       \/ /\ output_dir_fs \in {"dir", "readonly_dir"}
          /\ UNCHANGED <<output_dir_fs, created>>
          /\ pc' = "listdir"
       \/ /\ output_dir_fs = "file"
          /\ UNCHANGED <<output_dir_fs, created>>
          /\ pc' = "raised"
    /\ UNCHANGED <<input_dir_fs, files, volume_loaded, image_data, results_log,
                   current_iteration, it1, it2, batch, threshold, reduction,
                   iteration_info, poly_data, num_polygons, file_base_name, console, calls>>

\* the try block: os.listdir(INPUT_DIR), the .tif/.tiff filter, the two error returns
ListDir ==
    /\ pc = "listdir"
    /\ \/ /\ input_dir_fs = "missing"
          /\ console' = Append(console, "input_dir_not_found")
          /\ pc' = "done"
       \/ /\ input_dir_fs = "empty"
          /\ console' = Append(console, "no_tif_files")
          /\ pc' = "done"
       \/ /\ input_dir_fs = "file"
          /\ console' = console
          /\ pc' = "raised"
       \/ /\ input_dir_fs = "slices"
          /\ console' = console
          /\ pc' = "load"
    /\ UNCHANGED <<output_dir_fs, input_dir_fs, created, files, volume_loaded, image_data,
                   results_log, current_iteration, it1, it2, batch, threshold, reduction,
                   iteration_info, poly_data, num_polygons, file_base_name, calls>>

\* reading the slices, then results_log = [], current_iteration = 0
LoadVolume ==
    /\ pc = "load"
    /\ volume_loaded' = TRUE
    /\ results_log' = <<>>
    /\ current_iteration' = 0
    /\ pc' = "batch1"
    /\ UNCHANGED <<output_dir_fs, input_dir_fs, created, files, image_data, it1, it2, batch,
                   threshold, reduction, iteration_info, poly_data, num_polygons,
                   file_base_name, console, calls>>

\* for th in thresholds1: ... process_and_save(th, reduction1, ...)
Batch1Next ==
    /\ pc = "batch1"
    /\ IF it1 < Len(thresholds1)
       THEN /\ it1' = it1 + 1
            /\ current_iteration' = current_iteration + 1
            /\ iteration_info' = <<current_iteration + 1, total_iterations>>
            /\ threshold' = thresholds1[it1 + 1]
            /\ reduction' = reduction1
            /\ batch' = 1
            /\ calls' = Append(calls, NewCall(thresholds1[it1 + 1], reduction1,
                                              <<current_iteration + 1, total_iterations>>))
            /\ pc' = "pipeline"
       ELSE /\ pc' = "batch2"
            /\ UNCHANGED <<it1, current_iteration, iteration_info, threshold, reduction,
                           batch, calls>>
    /\ UNCHANGED <<output_dir_fs, input_dir_fs, created, files, volume_loaded, image_data,
                   results_log, it2, poly_data, num_polygons, file_base_name, console>>

\* for red in reductions2: ... process_and_save(threshold2, red, ...)
Batch2Next ==
    /\ pc = "batch2"
    /\ IF it2 < Len(reductions2)
       THEN /\ it2' = it2 + 1
            /\ current_iteration' = current_iteration + 1
            /\ iteration_info' = <<current_iteration + 1, total_iterations>>
            /\ threshold' = threshold2
            /\ reduction' = reductions2[it2 + 1]
            /\ batch' = 2
            /\ calls' = Append(calls, NewCall(threshold2, reductions2[it2 + 1],
                                              <<current_iteration + 1, total_iterations>>))
            /\ pc' = "pipeline"
       ELSE /\ pc' = "summary"
            /\ UNCHANGED <<it2, current_iteration, iteration_info, threshold, reduction,
                           batch, calls>>
    /\ UNCHANGED <<output_dir_fs, input_dir_fs, created, files, volume_loaded, image_data,
                   results_log, it1, poly_data, num_polygons, file_base_name, console>>

Summary_NoEmptyCheck ==
    /\ pc = "summary"
    /\ IF Writable
       THEN /\ files' = files \cup {CsvPath}
            /\ created' = created \cup {CsvPath}
            /\ console' = Append(console, "summary_saved")
       ELSE /\ console' = Append(console, "summary_write_error")
            /\ UNCHANGED <<files, created>>
    /\ pc' = "done"
    /\ UNCHANGED <<output_dir_fs, input_dir_fs, volume_loaded, image_data, results_log,
                   current_iteration, it1, it2, batch, threshold, reduction, iteration_info,
                   poly_data, num_polygons, file_base_name, calls>>
\* if not results_log: ... return; else open the csv, write header and rows, print the
\* success line (IOError caught).  The success line of line 172 holds non-ASCII
\* characters and is printed inside the try block: when stdout cannot encode them,
\* print raises UnicodeEncodeError, which 'except IOError' does not catch, and the
\* exception leaves main() after the csv has been written.
Summary ==
    /\ pc = "summary"
    /\ IF results_log = <<>>
       THEN /\ console' = Append(console, "no_models_generated")
            /\ pc' = "done"
            /\ UNCHANGED <<files, created>>
       ELSE IF Writable
            THEN /\ files' = files \cup {CsvPath}
                 /\ created' = created \cup {CsvPath}
                 /\ \E stdout_encodes \in BOOLEAN :
                       IF stdout_encodes
                       THEN /\ console' = Append(console, "summary_saved")
                            /\ pc' = "done"
                       ELSE /\ console' = console
                            /\ pc' = "raised"
            ELSE /\ console' = Append(console, "summary_write_error")
                 /\ pc' = "done"
                 /\ UNCHANGED <<files, created>>
    /\ UNCHANGED <<output_dir_fs, input_dir_fs, volume_loaded, image_data, results_log,
                   current_iteration, it1, it2, batch, threshold, reduction, iteration_info,
                   poly_data, num_polygons, file_base_name, calls>>

(* ------------------------- process_and_save() -------------------------- *)
\* marching cubes -> triangle filter -> clean -> decimate; poly_data = decimate.GetOutput()
RunPipeline ==
    /\ pc = "pipeline"
    /\ \E n \in MeshChoices(threshold, reduction) :
          /\ poly_data' = n
          /\ image_data' = image_data \cup {<<threshold, reduction, n>>}
          /\ calls' = [calls EXCEPT ![Len(calls)].polys = n]
    /\ pc' = "check"
    /\ UNCHANGED <<output_dir_fs, input_dir_fs, created, files, volume_loaded, results_log,
                   current_iteration, it1, it2, batch, threshold, reduction, iteration_info,
                   num_polygons, file_base_name, console>>

SkipEmpty_Logs ==
    /\ pc = "check"
    /\ IsEmptyMesh(poly_data)
    /\ results_log' = LogAppend(results_log,
                          MakeRow(threshold, reduction, poly_data,
                                  FileBaseName(threshold, reduction)))
    /\ calls' = [calls EXCEPT ![Len(calls)].logged = TRUE]
    /\ pc' = Return
    /\ UNCHANGED <<output_dir_fs, input_dir_fs, created, files, volume_loaded, image_data,
                   current_iteration, it1, it2, batch, threshold, reduction,
                   iteration_info, poly_data, num_polygons, file_base_name, console>>
\* if poly_data.GetNumberOfPolys() == 0: print(...); return
SkipEmpty ==
    /\ pc = "check"
    /\ IsEmptyMesh(poly_data)
    /\ pc' = Return
    /\ UNCHANGED <<output_dir_fs, input_dir_fs, created, files, volume_loaded, image_data,
                   results_log, current_iteration, it1, it2, batch, threshold, reduction,
                   iteration_info, poly_data, num_polygons, file_base_name, console, calls>>

\* mass properties, bounds, centre of mass; num_polygons = poly_data.GetNumberOfPolys()
Analyze ==
    /\ pc = "check"
    /\ ~IsEmptyMesh(poly_data)
    /\ num_polygons' = poly_data
    /\ calls' = [calls EXCEPT ![Len(calls)].analysed = TRUE]
    /\ pc' = "write_stl"
    /\ UNCHANGED <<output_dir_fs, input_dir_fs, created, files, volume_loaded, image_data,
                   results_log, current_iteration, it1, it2, batch, threshold, reduction,
                   iteration_info, poly_data, file_base_name, console>>

\* file_base_name, stl_filepath, stl_writer.Write(): the writer's result is not looked at
WriteSTL ==
    /\ pc = "write_stl"
    /\ file_base_name' = FileBaseName(threshold, reduction)
    /\ LET stl_filepath == PathJoin(OUTPUT_DIR, FileBaseName(threshold, reduction) \o ".stl")
       IN  /\ calls' = [calls EXCEPT ![Len(calls)].stl = stl_filepath]
           /\ IF Writable
              THEN /\ files' = files \cup {stl_filepath}
                   /\ created' = created \cup {stl_filepath}
              ELSE UNCHANGED <<files, created>>
    /\ pc' = "write_png"
    /\ UNCHANGED <<output_dir_fs, input_dir_fs, volume_loaded, image_data, results_log,
                   current_iteration, it1, it2, batch, threshold, reduction, iteration_info,
                   poly_data, num_polygons, console>>

\* off-screen render, png_filepath, png_writer.Write(): the result is not looked at
WritePNG ==
    /\ pc = "write_png"
    /\ LET png_filepath == PathJoin(OUTPUT_DIR, file_base_name \o ".png")
       IN  /\ calls' = [calls EXCEPT ![Len(calls)].png = png_filepath]
           /\ IF Writable
              THEN /\ files' = files \cup {png_filepath}
                   /\ created' = created \cup {png_filepath}
              ELSE UNCHANGED <<files, created>>
    /\ pc' = "append"
    /\ UNCHANGED <<output_dir_fs, input_dir_fs, volume_loaded, image_data, results_log,
                   current_iteration, it1, it2, batch, threshold, reduction, iteration_info,
                   poly_data, num_polygons, file_base_name, console>>

\* log_list.append({...}); the call returns
AppendRow ==
    /\ pc = "append"
    /\ results_log' = LogAppend(results_log,
                          MakeRow(threshold, reduction, num_polygons, file_base_name))
    /\ calls' = [calls EXCEPT ![Len(calls)].logged = TRUE]
    /\ pc' = Return
    /\ UNCHANGED <<output_dir_fs, input_dir_fs, created, files, volume_loaded, image_data,
                   current_iteration, it1, it2, batch, threshold, reduction,
                   iteration_info, poly_data, num_polygons, file_base_name, console>>

\* A VTK stage of process_and_save raises: neither it nor the loops of main() hold a
\* try/except, so the exception leaves main().
RaiseInCall ==
    /\ RaisePoint
    /\ pc' = "raised"
    /\ UNCHANGED <<output_dir_fs, input_dir_fs, created, files, volume_loaded, image_data,
                   results_log, current_iteration, it1, it2, batch, threshold, reduction,
                   iteration_info, poly_data, num_polygons, file_base_name, console, calls>>

Next ==
    \/ MakeDirs
    \/ ListDir
    \/ LoadVolume
    \/ Batch1Next
    \/ Batch2Next
    \/ Summary
    \/ RunPipeline
    \/ SkipEmpty
    \/ Analyze
    \/ WriteSTL
    \/ WritePNG
    \/ AppendRow
    \/ RaiseInCall

Spec == Init /\ [][Next]_vars

(* ------------------------- auxiliary definitions ----------------------- *)
\* The sweep as the specification states it: thresholds 0, 10, ..., 250 at reduction 0,
\* then threshold 120 at reductions 0, 0.5, 0.9, 0.99 (thousandths).
CanonicalSweep ==
    [k \in 1..30 |-> IF k <= 26 THEN <<(k - 1) * 10, 0>>
                               ELSE <<120, <<0, 500, 900, 990>>[k - 26]>>]

Attempted == [k \in 1..Len(calls) |-> <<calls[k].threshold, calls[k].reduction>>]

IsPrefix(s, t) == Len(s) <= Len(t) /\ \A i \in 1..Len(s) : s[i] = t[i]

IsLogged(c) == c.logged
\* the calls that appended a row, in call order
LoggedCalls == SelectSeq(calls, IsLogged)

Skipped(k) == calls[k].polys = 0

InputNotFound == input_dir_fs \in {"missing", "empty"}

(* ------------------------------- claims -------------------------------- *)

\* C1: once main() has finished, no row of the result log belongs to a combination
\* whose simplified mesh had zero polygons, and the log has at most as many rows as
\* process_and_save was called.
C1_NoSkippedCombinationIsLogged ==
    pc \in Terminal =>
        /\ \A i \in 1..Len(results_log) : \A k \in 1..Len(calls) :
              (/\ calls[k].threshold = results_log[i].Threshold
               /\ IntPercent(calls[k].reduction) = results_log[i].Reduction)
              => ~Skipped(k)
        /\ \A i \in 1..Len(results_log) : results_log[i].PolygonCount # 0
        /\ Len(results_log) <= Len(calls)
C1_Witness ==
    /\ pc = "done"
    /\ Len(results_log) >= 1
    /\ \E k \in 1..Len(calls) : Skipped(k)

\* C2: the combinations are attempted in the canonical sweep order (the calls made so
\* far are always a prefix of it), and the rows of the log are those of the calls that
\* logged, in call order: a subsequence of the canonical order.
C2_CanonicalOrder ==
    /\ IsPrefix(Attempted, CanonicalSweep)
    /\ Len(results_log) = Len(LoggedCalls)
    /\ \A i \in 1..Len(results_log) :
          /\ results_log[i].Threshold = LoggedCalls[i].threshold
          /\ results_log[i].Reduction = IntPercent(LoggedCalls[i].reduction)
C2_Witness ==
    /\ pc = "done"
    /\ Len(results_log) = 2
    /\ results_log[1].Threshold # 120
    /\ results_log[1].Reduction = 0
    /\ results_log[2].Threshold = 120
    /\ results_log[2].Reduction > 0

\* C3: a call whose simplified mesh has zero polygons writes no file, leaves the log
\* unchanged and returns to the loop it was called from, whose position it does not
\* change; and a run that reaches the summary step has attempted the whole sweep.
C3_SkipIsANormalReturn ==
    /\ [][(pc = "check" /\ poly_data = 0) =>
            /\ files' = files
            /\ created' = created
            /\ results_log' = results_log
            /\ pc' = (IF batch = 1 THEN "batch1" ELSE "batch2")
            /\ it1' = it1 /\ it2' = it2]_vars
    /\ [](pc \in {"summary", "done"} /\ volume_loaded => Attempted = CanonicalSweep)
C3_Witness ==
    /\ pc = "done"
    /\ Len(calls) = 30
    /\ Skipped(1)
    /\ \E k \in 2..30 : calls[k].logged

\* C4: every non-skipped combination writes its mesh to
\* <outputDir>/model_th<threshold>_red<int(reduction*100)>.stl, no two attempted
\* combinations write to the same path, and at the end there are as many distinct
\* mesh files as rows.
C4_OneMeshFilePerCombination ==
    /\ \A k \in 1..Len(calls) : calls[k].stl # <<>> =>
          calls[k].stl = <<"output", "model_th" \o ToString(calls[k].threshold) \o "_red"
                                     \o ToString(IntPercent(calls[k].reduction)) \o ".stl">>
    /\ \A j, k \in 1..Len(calls) :
          (j < k /\ calls[j].stl # <<>> /\ calls[k].stl # <<>>) => calls[j].stl # calls[k].stl
    /\ (pc = "done" /\ volume_loaded) =>
          Cardinality({calls[k].stl : k \in 1..Len(calls)} \cap files) = Len(results_log)

\* C5: when the input directory is missing or holds no slice, main() reports it and
\* returns before the volume is loaded and before any call of process_and_save, and
\* the run has created nothing on the file system.
C5_InputNotFoundLeavesNothing ==
    (pc = "done" /\ InputNotFound) =>
        /\ console # <<>>
        /\ ~volume_loaded
        /\ calls = <<>>
        /\ files = {}
        /\ created = {}

\* C6: when the sweep ends with an empty log, the summary file is neither created nor
\* written and the only outcome reported is 'no models generated', not the write
\* error; and the summary file is opened only when the log holds a row.
C6_EmptySweepWritesNoSummary ==
    /\ (pc = "done" /\ volume_loaded /\ results_log = <<>>) =>
          /\ CsvPath \notin files
          /\ CsvPath \notin created
          /\ console = <<"no_models_generated">>
    /\ \A i \in 1..Len(console) :
          console[i] \in {"summary_saved", "summary_write_error"} => results_log # <<>>
    /\ CsvPath \in files => Len(results_log) >= 1
C6_Witness ==
    /\ pc = "done"
    /\ Len(calls) = 30
    /\ results_log = <<>>
    /\ output_dir_fs = "dir"

\* C7: once the sweep has begun, a failure inside one combination does not end the
\* run: main() ends only after every combination was attempted and the summary step
\* was reached.
C7_FailureDoesNotAbortSweep ==
    (volume_loaded /\ pc \in Terminal) =>
        /\ Attempted = CanonicalSweep
        /\ it1 = Len(thresholds1) /\ it2 = Len(reductions2)
        /\ pc = "done" \/ CsvPath \in files

\* C8: a row is in the log only for a call that has fully succeeded: the call ran its
\* analysis and its mesh file and its preview image have been written; each logging
\* call has exactly one row, in call order.
C8_LoggedOnlyAfterFullSuccess ==
    /\ Len(results_log) = Len(LoggedCalls)
    /\ \A k \in 1..Len(calls) : calls[k].logged =>
          /\ calls[k].analysed
          /\ calls[k].stl \in files
          /\ calls[k].png \in files

\* C9: the total displayed for every combination is the number of combinations of
\* the sweep, and the displayed index lies between 1 and that total.
C9_ProgressTotalIsSweepLength ==
    \A k \in 1..Len(calls) :
        /\ calls[k].info[2] = Len(thresholds1) + Len(reductions2)
        /\ 1 <= calls[k].info[1]
        /\ calls[k].info[1] <= calls[k].info[2]

\* C10: every row agrees with the call that appended it: at least one polygon, the
\* call's threshold and integer reduction percent, and as file names the base names
\* of the mesh file and the preview image that call wrote before it appended the row.
C10_RowMatchesItsCall ==
    /\ Len(results_log) = Len(LoggedCalls)
    /\ \A i \in 1..Len(results_log) :
          LET r == results_log[i]
              c == LoggedCalls[i]
          IN  /\ r.PolygonCount >= 1
              /\ r.PolygonCount = c.polys
              /\ r.Threshold = c.threshold
              /\ r.Reduction = IntPercent(c.reduction)
              /\ \E f \in files : BaseName(f) = r.STLFile /\ f = c.stl
              /\ \E f \in files : BaseName(f) = r.ImageFile /\ f = c.png
====
